---- MODULE Spec2Model ----
(***************************************************************************)
(* Model of main.py: the duration calculator, the confirmation prompt and  *)
(* the orchestration of cut / combine / move / cleanup over the external   *)
(* media processor.                                                        *)
(*                                                                         *)
(* Text the program inspects character by character (timestamps, the       *)
(* user's answer, the formatted duration) is a sequence of one-character   *)
(* strings.  File names and paths, which the program only concatenates and *)
(* compares, are strings.                                                  *)
(***************************************************************************)
EXTENDS Integers, Sequences, FiniteSets, TLC

VARIABLES clips_dict, final_output_file, preexisting, disk, total_duration,
          user_input, pc, cut_files, log

vars == <<clips_dict, final_output_file, preexisting, disk, total_duration,
          user_input, pc, cut_files, log>>

(***************************************************************************)
(* Bounds of the model.                                                    *)
(***************************************************************************)
MaxClips == 2

MaxDurClips == 2

MaxInputLen == 2

(***************************************************************************)
(* Text helpers.                                                           *)
(***************************************************************************)
Digit == {"0", "1", "2", "3", "4", "5", "6", "7", "8", "9"}

DigitVal(c) ==
    CASE c = "0" -> 0 [] c = "1" -> 1 [] c = "2" -> 2 [] c = "3" -> 3
      [] c = "4" -> 4 [] c = "5" -> 5 [] c = "6" -> 6 [] c = "7" -> 7
      [] c = "8" -> 8 [] c = "9" -> 9

DigitChar(d) ==
    CASE d = 0 -> "0" [] d = 1 -> "1" [] d = 2 -> "2" [] d = 3 -> "3"
      [] d = 4 -> "4" [] d = 5 -> "5" [] d = 6 -> "6" [] d = 7 -> "7"
      [] d = 8 -> "8" [] d = 9 -> "9"

\* str.split(":"): the fields between the colons, empty fields kept.
RECURSIVE split(_)
split(s) ==
    IF \A k \in 1..Len(s) : s[k] # ":"
    THEN <<s>>
    ELSE LET k == CHOOSE k \in 1..Len(s) :
                      s[k] = ":" /\ \A m \in 1..(k - 1) : s[m] # ":"
         IN  <<SubSeq(s, 1, k - 1)>> \o split(SubSeq(s, k + 1, Len(s)))

reversed(s) == [k \in 1..Len(s) |-> s[Len(s) + 1 - k]]

\* int(x) raises ValueError unless x is a non-empty run of decimal digits
\* (over the alphabet of digits and colons the timestamps are drawn from).
IntOk(x) == Len(x) > 0 /\ \A k \in 1..Len(x) : x[k] \in Digit

RECURSIVE int(_)
int(x) ==
    IF Len(x) = 0 THEN 0
    ELSE 10 * int(SubSeq(x, 1, Len(x) - 1)) + DigitVal(x[Len(x)])

RECURSIVE Pow60(_)
Pow60(n) == IF n = 0 THEN 1 ELSE 60 * Pow60(n - 1)

\* sum(int(x) * 60**i for i, x in enumerate(reversed(t.split(":"))))
RECURSIVE WeightedSum(_, _)
WeightedSum(fields, n) ==
    IF n = 0 THEN 0
    ELSE WeightedSum(fields, n - 1) + int(fields[n]) * Pow60(n - 1)

to_seconds(t) ==
    LET fields == reversed(split(t)) IN WeightedSum(fields, Len(fields))

ParseOk(t) == \A k \in 1..Len(split(t)) : IntOk(split(t)[k])

RECURSIVE Decimal(_)
Decimal(n) ==
    IF n < 10 THEN <<DigitChar(n)>>
    ELSE Decimal(n \div 10) \o <<DigitChar(n % 10)>>

\* The format spec ":02": sign-aware zero padding to a minimum width of two.
Format02(n) ==
    IF n < 0 THEN <<"-">> \o Decimal(0 - n)
    ELSE IF n < 10 THEN <<"0">> \o Decimal(n)
    ELSE Decimal(n)

FormatDurationCapped(total_seconds) ==
    Format02((total_seconds \div 3600) % 100) \o <<":">>
      \o Format02((total_seconds % 3600) \div 60) \o <<":">>
      \o Format02(total_seconds % 60)

FormatDuration(total_seconds) ==
    Format02(total_seconds \div 3600) \o <<":">>
      \o Format02((total_seconds % 3600) \div 60) \o <<":">>
      \o Format02(total_seconds % 60)

RECURSIVE TotalSeconds(_, _)
TotalSeconds(clips, n) ==
    IF n = 0 THEN 0
    ELSE TotalSeconds(clips, n - 1)
           + (to_seconds(clips[n].end_time) - to_seconds(clips[n].start_time))

CanCalculate(clips) ==
    \A k \in 1..Len(clips) :
        ParseOk(clips[k].start_time) /\ ParseOk(clips[k].end_time)

calculate_total_duration(clips) == FormatDuration(TotalSeconds(clips, Len(clips)))

(***************************************************************************)
(* The confirmation prompt.                                                *)
(***************************************************************************)
\* str.strip(): leading and trailing whitespace removed.
RECURSIVE strip(_)
strip(s) ==
    IF Len(s) = 0 THEN s
    ELSE IF s[1] = " " THEN strip(Tail(s))
    ELSE IF s[Len(s)] = " " THEN strip(SubSeq(s, 1, Len(s) - 1))
    ELSE s

\* str.lower() over the answer alphabet.
lower(s) == [k \in 1..Len(s) |-> IF s[k] = "Y" THEN "y" ELSE s[k]]

DeclinedOnlyOnN(answer) == lower(strip(answer)) = <<"n">>

\* if user_input != "y": exit()
Declined(answer) == lower(strip(answer)) # <<"y">>

(***************************************************************************)
(* Paths.                                                                  *)
(***************************************************************************)
video_folder == "Videos"

\* os.path.join of a folder without trailing separator and a relative name.
join(folder, name) == folder \o "/" \o name

InputPathOf(filename) == join(video_folder, filename)

OutputPathOf(filename) == join(video_folder, "cut_" \o filename)

(***************************************************************************)
(* Inputs of a run.                                                        *)
(***************************************************************************)
HMS(a, b, c, d, e, f) == <<a, b, ":", c, d, ":", e, f>>

Filenames == {"a.mp4", "cut_a.mp4", "b.mp4"}

\* The (start, end) pairs of the runs; the last one does not parse.
RunRanges ==
    { <<HMS("0","0","0","0","1","0"), HMS("0","0","0","0","2","0")>>,
      <<HMS("0","0","0","1","0","0"), HMS("0","0","0","2","3","0")>>,
      <<HMS("0","0","0","0","0","0"), <<"0", "0", ":", ":", "0", "5">> >> }

\* Timestamps of the duration calculator's inputs: well-formed ones, a
\* two-field one, one whose minutes exceed 59 and one with an empty field.
DurStamps ==
    { HMS("0","0","0","0","0","0"), HMS("0","0","0","0","1","0"),
      HMS("0","0","0","2","3","0"), HMS("9","9","5","9","5","9"),
      HMS("0","0","7","5","0","0"),
      <<"1", ":", "3", "0">>, <<":", "5">> }

DurNames == <<"a.mp4", "b.mp4", "c.mp4">>

FinalPaths ==
    { join(video_folder, "final_output.mp4"),
      join(video_folder, "cut_a.mp4"),
      join(video_folder, "b.mp4") }

AllPaths ==
    {InputPathOf(f) : f \in Filenames} \cup {OutputPathOf(f) : f \in Filenames}
      \cup {InputPathOf(DurNames[k]) : k \in 1..Len(DurNames)}
      \cup FinalPaths

Answers ==
    UNION {[1..n -> {"y", "Y", "n", " "}] : n \in 0..MaxInputLen}

Clip(f, range) == [filename |-> f, start_time |-> range[1], end_time |-> range[2]]

\* A dict has one entry per key: the file names of a set are distinct.
ClipSets ==
    UNION { { c \in [1..n -> {Clip(f, r) : f \in Filenames, r \in RunRanges}] :
                \A x, y \in 1..n : x # y => c[x].filename # c[y].filename }
            : n \in 0..MaxClips }

InitialDisk(clips, final, pre) ==
    [p \in AllPaths |->
        IF \/ \E k \in 1..Len(clips) : p = InputPathOf(clips[k].filename)
           \/ (pre /\ p = final)
        THEN "original" ELSE "absent"]

NoDuration == <<>>

NoAnswer == <<"?">>

Init ==
    /\ clips_dict \in ClipSets
    /\ final_output_file \in FinalPaths
    /\ preexisting \in BOOLEAN
    /\ disk = InitialDisk(clips_dict, final_output_file, preexisting)
    /\ total_duration = NoDuration
    /\ user_input = NoAnswer
    /\ pc = "calculate"
    /\ cut_files = <<>>
    /\ log = <<>>

InitDur ==
    /\ \E n \in 0..MaxDurClips :
          \E st \in [1..n -> DurStamps], en \in [1..n -> DurStamps] :
              clips_dict = [k \in 1..n |-> Clip(DurNames[k], <<st[k], en[k]>>)]
    /\ final_output_file = join(video_folder, "final_output.mp4")
    /\ preexisting = FALSE
    /\ disk = InitialDisk(clips_dict, final_output_file, preexisting)
    /\ total_duration = NoDuration
    /\ user_input = NoAnswer
    /\ pc = "calculate"
    /\ cut_files = <<>>
    /\ log = <<>>

(***************************************************************************)
(* The external processor.  Only its exit status is consulted; a           *)
(* successful invocation has written its output file, a failed one leaves  *)
(* the output path as it was or holding a partial file.                    *)
(***************************************************************************)
ExitStatuses == {0, 1}

Unchecked(returncode) == FALSE

\* subprocess.run(..., check=True) raises CalledProcessError on non-zero exit.
Raises(returncode) == returncode # 0

DisksAfterInvocation(d, output_file, returncode, content) ==
    IF returncode = 0
    THEN {[d EXCEPT ![output_file] = content]}
    ELSE {d, [d EXCEPT ![output_file] = "partial"]}

CutInvocation(input_file, output_file, start_time, end_time, returncode) ==
    [op |-> "cut", inputs |-> <<input_file>>, output |-> output_file,
     ss |-> start_time, to |-> end_time, n |-> 1, exit |-> returncode]

CombineInvocation(input_files, output_file, returncode) ==
    [op |-> "combine", inputs |-> input_files, output |-> output_file,
     ss |-> <<>>, to |-> <<>>, n |-> Len(input_files), exit |-> returncode]

MoveCall(src, dst) ==
    [op |-> "move", inputs |-> <<src>>, output |-> dst,
     ss |-> <<>>, to |-> <<>>, n |-> 1, exit |-> 0]

RecordFront(files, output_file) == <<output_file>> \o files

\* cut_files.append(output_file)
Record(files, output_file) == Append(files, output_file)

NoShortcut(files) == FALSE

\* if len(cut_files) == 1
SingleFile(files) == Len(files) = 1

\* for file in cut_files: if os.path.exists(file): os.remove(file)
RECURSIVE RemoveAll(_, _, _)
RemoveAll(d, files, n) ==
    IF n = 0 THEN d
    ELSE LET before == RemoveAll(d, files, n - 1)
         IN  IF before[files[n]] # "absent"
             THEN [before EXCEPT ![files[n]] = "absent"]
             ELSE before

(***************************************************************************)
(* The steps of the program.                                               *)
(***************************************************************************)
CalculateTotalDuration ==
    /\ pc = "calculate"
    /\ IF CanCalculate(clips_dict)
       THEN /\ total_duration' = calculate_total_duration(clips_dict)
            /\ pc' = "prompt"
       ELSE /\ pc' = "raised"
            /\ UNCHANGED total_duration
    /\ UNCHANGED <<clips_dict, final_output_file, preexisting, disk,
                   user_input, cut_files, log>>

Confirm ==
    /\ pc = "prompt"
    /\ \E answer \in Answers :
          /\ user_input' = answer
          /\ pc' = IF Declined(answer) THEN "cancelled" ELSE "cutting"
    /\ UNCHANGED <<clips_dict, final_output_file, preexisting, disk,
                   total_duration, cut_files, log>>

CutWithRollback ==
    /\ pc = "cutting"
    /\ Len(cut_files) < Len(clips_dict)
    /\ LET entry == clips_dict[Len(cut_files) + 1]
           input_file == InputPathOf(entry.filename)
           output_file == OutputPathOf(entry.filename)
       IN  \E returncode \in ExitStatuses :
             /\ log' = Append(log, CutInvocation(input_file, output_file,
                                   entry.start_time, entry.end_time, returncode))
             /\ IF Raises(returncode)
                THEN /\ disk' \in {RemoveAll(d, cut_files, Len(cut_files)) :
                                     d \in DisksAfterInvocation(disk, output_file,
                                                                returncode, "clip")}
                     /\ pc' = "raised"
                     /\ UNCHANGED cut_files
                ELSE /\ disk' \in DisksAfterInvocation(disk, output_file,
                                                       returncode, "clip")
                     /\ cut_files' = Record(cut_files, output_file)
                     /\ UNCHANGED pc
    /\ UNCHANGED <<clips_dict, final_output_file, preexisting,
                   total_duration, user_input>>

\* One iteration of the cutting loop of main.
Cut ==
    /\ pc = "cutting"
    /\ Len(cut_files) < Len(clips_dict)
    /\ LET entry == clips_dict[Len(cut_files) + 1]
           input_file == InputPathOf(entry.filename)
           output_file == OutputPathOf(entry.filename)
       IN  \E returncode \in ExitStatuses :
             /\ log' = Append(log, CutInvocation(input_file, output_file,
                                   entry.start_time, entry.end_time, returncode))
             /\ disk' \in DisksAfterInvocation(disk, output_file, returncode, "clip")
             /\ IF Raises(returncode)
                THEN /\ pc' = "raised"
                     /\ UNCHANGED cut_files
                ELSE /\ cut_files' = Record(cut_files, output_file)
                     /\ UNCHANGED pc
    /\ UNCHANGED <<clips_dict, final_output_file, preexisting,
                   total_duration, user_input>>

\* shutil.move(cut_files[0], final_output_file); moving a file onto itself
\* changes nothing.
Move ==
    /\ pc = "cutting"
    /\ Len(cut_files) = Len(clips_dict)
    /\ SingleFile(cut_files)
    /\ log' = Append(log, MoveCall(cut_files[1], final_output_file))
    /\ disk' = IF cut_files[1] = final_output_file
               THEN disk
               ELSE [disk EXCEPT ![final_output_file] = disk[cut_files[1]],
                                 ![cut_files[1]] = "absent"]
    /\ pc' = "cleanup"
    /\ UNCHANGED <<clips_dict, final_output_file, preexisting,
                   total_duration, user_input, cut_files>>

\* combine_videos(cut_files, final_output_file)
Combine ==
    /\ pc = "cutting"
    /\ Len(cut_files) = Len(clips_dict)
    /\ ~SingleFile(cut_files)
    /\ \E returncode \in ExitStatuses :
          /\ log' = Append(log, CombineInvocation(cut_files, final_output_file,
                                                  returncode))
          /\ disk' \in DisksAfterInvocation(disk, final_output_file,
                                            returncode, "combined")
          /\ pc' = IF Raises(returncode) THEN "raised" ELSE "cleanup"
    /\ UNCHANGED <<clips_dict, final_output_file, preexisting,
                   total_duration, user_input, cut_files>>

Cleanup ==
    /\ pc = "cleanup"
    /\ disk' = RemoveAll(disk, cut_files, Len(cut_files))
    /\ pc' = "done"
    /\ UNCHANGED <<clips_dict, final_output_file, preexisting,
                   total_duration, user_input, cut_files, log>>

Next ==
    \/ CalculateTotalDuration
    \/ Confirm
    \/ Cut
    \/ Move
    \/ Combine
    \/ Cleanup

Spec == Init /\ [][Next]_vars

NextDur == CalculateTotalDuration

SpecDur == InitDur /\ [][NextDur]_vars

(***************************************************************************)
(* Vocabulary of the properties, stated apart from the operators above.    *)
(***************************************************************************)
IntermediateOf(filename) == video_folder \o "/cut_" \o filename

SourceOf(filename) == video_folder \o "/" \o filename

AllZero == \A k \in 1..Len(log) : log[k].exit = 0

IsCutOf(r, k, status) ==
    /\ r.op = "cut"
    /\ r.inputs = <<SourceOf(clips_dict[k].filename)>>
    /\ r.output = IntermediateOf(clips_dict[k].filename)
    /\ r.ss = clips_dict[k].start_time
    /\ r.to = clips_dict[k].end_time
    /\ r.exit = status

IsCombineOfAll(r) ==
    /\ r.op = "combine"
    /\ r.inputs = [k \in 1..Len(clips_dict) |-> IntermediateOf(clips_dict[k].filename)]
    /\ r.n = Len(clips_dict)
    /\ r.output = final_output_file

IsMoveToFinal(r) ==
    /\ r.op = "move"
    /\ r.inputs = <<IntermediateOf(clips_dict[1].filename)>>
    /\ r.output = final_output_file

MainEnded == pc \in {"done", "raised"} /\ user_input # NoAnswer

(***************************************************************************)
(* C1.  On a set of N >= 2 entries with every invocation exiting zero, the *)
(* invocations made so far are the cuts of the first entries in insertion  *)
(* order, then (only after all N cuts) one combine whose inputs are the N  *)
(* intermediate paths in that order; once main is past the combination the *)
(* log is exactly N cuts and one combine, and no move is ever performed.   *)
(***************************************************************************)
C1_MultiEntryCutsThenOneCombine ==
    (Len(clips_dict) >= 2 /\ AllZero) =>
        /\ Len(log) <= Len(clips_dict) + 1
        /\ \A k \in 1..Len(log) :
              IF k <= Len(clips_dict)
              THEN IsCutOf(log[k], k, 0)
              ELSE IsCombineOfAll(log[k])
        /\ pc \in {"cleanup", "done"} => Len(log) = Len(clips_dict) + 1

C1_Witness ==
    /\ pc = "done"
    /\ Len(clips_dict) = 2
    /\ Len(log) = 3
    /\ log[3].op = "combine"

(***************************************************************************)
(* C2 as stated: for every single-entry set, when main has ended it has    *)
(* performed exactly one cut followed by one move and no combine.          *)
(***************************************************************************)
C2_AsStated ==
    (Len(clips_dict) = 1 /\ MainEnded) =>
        /\ Len(log) = 2
        /\ log[1].op = "cut"
        /\ log[2].op = "move"

(***************************************************************************)
(* C2 amended: for every single-entry set the Combiner is never invoked;   *)
(* the first invocation is the cut of the entry; and when that cut exits   *)
(* zero, main ends normally having performed exactly that cut followed by  *)
(* one move of the intermediate file to the final output path.             *)
(***************************************************************************)
C2_SingleEntryCutThenMove ==
    Len(clips_dict) = 1 =>
        /\ \A k \in 1..Len(log) : log[k].op # "combine"
        /\ Len(log) >= 1 => \E status \in ExitStatuses : IsCutOf(log[1], 1, status)
        /\ (MainEnded /\ log[1].exit = 0) =>
              /\ pc = "done"
              /\ Len(log) = 2
              /\ IsMoveToFinal(log[2])

C2_Witness ==
    /\ Len(clips_dict) = 1
    /\ pc = "done"
    /\ Len(log) = 2
    /\ log[2].op = "move"

(***************************************************************************)
(* C3 as stated: after a run in which every invocation exited zero and     *)
(* main returned, no recorded intermediate path exists and the final       *)
(* output file exists, for every set and every final output path.          *)
(***************************************************************************)
C3_AsStated ==
    pc = "done" =>
        /\ \A k \in 1..Len(cut_files) : disk[cut_files[k]] = "absent"
        /\ disk[final_output_file] # "absent"

(***************************************************************************)
(* C4 as stated: for the empty set the total duration is "00:00:00" and    *)
(* the run performs no cut and no combine invocation.                      *)
(***************************************************************************)
C4_AsStated ==
    Len(clips_dict) = 0 =>
        /\ pc # "calculate" => total_duration = HMS("0","0","0","0","0","0")
        /\ \A k \in 1..Len(log) : log[k].op \notin {"cut", "combine"}

(***************************************************************************)
(* C5 as stated: after a run in which all cuts succeeded and the combine   *)
(* exited non-zero, no intermediate file of the run remains.               *)
(***************************************************************************)
C5_AsStated ==
    (pc = "raised" /\ Len(log) > 0 /\ log[Len(log)].op = "combine") =>
        \A k \in 1..Len(clips_dict) :
            disk[IntermediateOf(clips_dict[k].filename)] = "absent"

(***************************************************************************)
(* C6.  A non-zero exit status is fatal: an invocation that exited         *)
(* non-zero is the last invocation of the run (it is not retried and no    *)
(* cut, combine or move follows it), and the run has terminated            *)
(* abnormally.                                                             *)
(***************************************************************************)
C6_FirstFailureIsFatal ==
    \A k \in 1..Len(log) :
        log[k].exit # 0 => (k = Len(log) /\ pc = "raised")

C6_Witness ==
    /\ pc = "raised"
    /\ Len(clips_dict) = 2
    /\ Len(log) = 1
    /\ log[1].op = "cut"
    /\ log[1].exit # 0

(***************************************************************************)
(* C7.  Once the user has answered anything but a "y" or "Y" surrounded by *)
(* optional blanks, the program has terminated with nothing invoked and    *)
(* the filesystem exactly as it was at the start.                          *)
(***************************************************************************)
IsAffirmative(answer) ==
    \E k \in 1..Len(answer) :
        /\ answer[k] \in {"y", "Y"}
        /\ \A m \in 1..Len(answer) : m # k => answer[m] = " "

C7_DeclineHasNoSideEffects ==
    (user_input # NoAnswer /\ ~IsAffirmative(user_input)) =>
        /\ pc = "cancelled"
        /\ log = <<>>
        /\ cut_files = <<>>
        /\ disk = InitialDisk(clips_dict, final_output_file, preexisting)

C7_Witness ==
    /\ pc = "cancelled"
    /\ user_input = <<"y", "y">>
    /\ Len(clips_dict) = 2

(***************************************************************************)
(* C8.  For a set whose timestamps are all of the form DD:DD:DD with each  *)
(* end after its start, the calculator's result reads H..H:MM:SS with MM   *)
(* and SS two digits in 0..59, an hour field of at least two digits that   *)
(* carries no padding beyond two, and H*3600 + MM*60 + SS equal to the sum *)
(* over the entries of (end seconds - start seconds).                      *)
(***************************************************************************)
Numerals == <<"0", "1", "2", "3", "4", "5", "6", "7", "8", "9">>

NumeralValue(c) == (CHOOSE k \in 1..10 : Numerals[k] = c) - 1

IsNumeral(c) == \E k \in 1..10 : Numerals[k] = c

RECURSIVE NumberOf(_)
NumberOf(s) ==
    IF s = <<>> THEN 0
    ELSE NumberOf(SubSeq(s, 1, Len(s) - 1)) * 10 + NumeralValue(s[Len(s)])

WellFormed(t) ==
    /\ Len(t) = 8
    /\ t[3] = ":" /\ t[6] = ":"
    /\ \A k \in {1, 2, 4, 5, 7, 8} : IsNumeral(t[k])

SecondsOf(t) ==
    NumberOf(SubSeq(t, 1, 2)) * 3600 + NumberOf(SubSeq(t, 4, 5)) * 60
      + NumberOf(SubSeq(t, 7, 8))

ValidIncreasing ==
    \A k \in 1..Len(clips_dict) :
        /\ WellFormed(clips_dict[k].start_time)
        /\ WellFormed(clips_dict[k].end_time)
        /\ SecondsOf(clips_dict[k].end_time) > SecondsOf(clips_dict[k].start_time)

RECURSIVE SumOfDurations(_)
SumOfDurations(n) ==
    IF n = 0 THEN 0
    ELSE SumOfDurations(n - 1) + SecondsOf(clips_dict[n].end_time)
                               - SecondsOf(clips_dict[n].start_time)

C8_TotalIsSumFormatted ==
    (pc = "prompt" /\ ValidIncreasing) =>
        LET out == total_duration
            L == Len(out)
            hh == SubSeq(out, 1, L - 6)
            mm == SubSeq(out, L - 4, L - 3)
            ss == SubSeq(out, L - 1, L)
        IN  /\ L >= 8
            /\ out[L - 5] = ":" /\ out[L - 2] = ":"
            /\ \A k \in (1..L) \ {L - 5, L - 2} : IsNumeral(out[k])
            /\ NumberOf(mm) <= 59 /\ NumberOf(ss) <= 59
            /\ Len(hh) > 2 => hh[1] # "0"
            /\ NumberOf(hh) * 3600 + NumberOf(mm) * 60 + NumberOf(ss)
                 = SumOfDurations(Len(clips_dict))

C8_Witness ==
    /\ pc = "prompt"
    /\ ValidIncreasing
    /\ Len(clips_dict) = 2
    /\ Len(total_duration) = 9

(***************************************************************************)
(* C9.  When the cut of the k-th entry (k >= 2) has exited non-zero, the   *)
(* run has ended with the intermediate files of the k-1 earlier cuts still *)
(* on the filesystem.                                                      *)
(***************************************************************************)
C9_FailedCutLeavesEarlierFiles ==
    (Len(log) >= 2 /\ log[Len(log)].op = "cut" /\ log[Len(log)].exit # 0) =>
        /\ pc = "raised"
        /\ \A j \in 1..(Len(log) - 1) :
              /\ IsCutOf(log[j], j, 0)
              /\ disk[IntermediateOf(clips_dict[j].filename)] # "absent"

C9_Witness ==
    /\ pc = "raised"
    /\ Len(log) = 2
    /\ log[1].op = "cut" /\ log[1].exit = 0
    /\ log[2].op = "cut" /\ log[2].exit # 0

(***************************************************************************)
(* C10 as stated: no source input file of the set is the output path of a  *)
(* cut or one of the paths the cleanup loop deletes.                       *)
(***************************************************************************)
C10_AsStated ==
    \A j \in 1..Len(clips_dict) :
        /\ \A k \in 1..Len(log) :
              log[k].op = "cut" => log[k].output # SourceOf(clips_dict[j].filename)
        /\ \A k \in 1..Len(cut_files) :
              cut_files[k] # SourceOf(clips_dict[j].filename)

====
